---- MODULE Spec2Model ----
(***************************************************************************)
(* Model of the trade calculation core of trade-scope-extention            *)
(* (src/src/lib/tradeCalc.ts): calculateTrade and its helpers.             *)
(*                                                                         *)
(* JavaScript numbers are modelled as exact rationals [n, d] in lowest     *)
(* terms with d > 0.  An absent optional field (undefined) is NULL, and an *)
(* optional boolean is one of "true", "false", "undefined".                *)
(***************************************************************************)
EXTENDS Integers, Sequences, FiniteSets, TLC

VARIABLES input, pc, out,
          formState, presets, formErrors, selectedPresetId, rows, calls,
          timer, storage, writes, requests

\* the variables of a call of calculateTrade
calcVars == <<input, pc, out>>

\* the variables of the popup
popupVars ==
  <<formState, presets, formErrors, selectedPresetId, rows, calls, timer,
    storage, writes, requests>>

vars ==
  <<input, pc, out, formState, presets, formErrors, selectedPresetId, rows,
    calls, timer, storage, writes, requests>>

----------------------------------------------------------------------------
(* Numbers *)

Abs(k) == IF k < 0 THEN -k ELSE k

RECURSIVE GCD(_, _)
GCD(a, b) == IF b = 0 THEN a ELSE GCD(b, a % b)

\* The number n/d (d # 0) in lowest terms.
Rat(n, d) ==
  LET s == IF d < 0 THEN -1 ELSE 1
      g == GCD(Abs(n), Abs(d))
  IN  [n |-> (s * n) \div g, d |-> (s * d) \div g]

Num(k) == [n |-> k, d |-> 1]

\* undefined: an optional field that is absent
NULL == [n |-> 0, d |-> 0]

POSITIVE_INFINITY == [n |-> 1, d |-> 0]

IsFinite(x) == x.d > 0

RAdd(x, y) == Rat(x.n * y.d + y.n * x.d, x.d * y.d)
RSub(x, y) == Rat(x.n * y.d - y.n * x.d, x.d * y.d)
RMul(x, y) == Rat(x.n * y.n, x.d * y.d)
RDiv(x, y) == Rat(x.n * y.d, x.d * y.n)
RNeg(x) == [n |-> -x.n, d |-> x.d]
RLt(x, y) == x.n * y.d < y.n * x.d
RLe(x, y) == x.n * y.d <= y.n * x.d
RMax(x, y) == IF RLt(x, y) THEN y ELSE x

\* Math.floor as an integer
MathFloor(x) == x.n \div x.d

\* The denominator of the 1e-9 tolerance of the step rounding
EPS_DEN == 1000000000

\* Math.floor(x + 1e-9): with x = f + r/d (0 <= r < d), one more than f
\* exactly when (d - r)/d <= 1e-9, i.e. d - r <= d \div 10^9.
FloorPlusEps(x) ==
  LET f == MathFloor(x)
      r == x.n - f * x.d
  IN  IF x.d - r <= x.d \div EPS_DEN THEN f + 1 ELSE f

\* Math.ceil(x - 1e-9): with x = f + r/d, f when r/d <= 1e-9 and f + 1
\* otherwise.
CeilMinusEps(x) ==
  LET f == MathFloor(x)
      r == x.n - f * x.d
  IN  IF r <= x.d \div EPS_DEN THEN f ELSE f + 1

\* The number of decimals kept by toFixed
FIXED_DIGITS == 8

RECURSIVE Pow10(_)
Pow10(k) == IF k = 0 THEN 1 ELSE 10 * Pow10(k - 1)

\* Long division: k further decimal digits of r/d (0 <= r < d), as
\* <<digits read as an integer, remainder>>.
RECURSIVE Digits(_, _, _, _)
Digits(r, d, k, acc) ==
  IF k = 0 THEN <<acc, r>>
  ELSE Digits((r * 10) % d, d, k - 1, acc * 10 + (r * 10) \div d)

\* Number(x.toFixed(8)): x rounded to 8 decimals, halves away from zero
ToFixed8(x) ==
  LET a  == [n |-> Abs(x.n), d |-> x.d]
      f  == MathFloor(a)
      dg == Digits(a.n - f * a.d, a.d, FIXED_DIGITS, 0)
      K  == dg[1] + (IF 2 * dg[2] >= a.d THEN 1 ELSE 0)
      v  == RAdd(Num(f), Rat(K, Pow10(FIXED_DIGITS)))
  IN  IF x.n < 0 THEN RNeg(v) ELSE v

\* x ?? dflt
OrElse(x, dflt) == IF x = NULL THEN dflt ELSE x

\* ToBoolean of an optional boolean
Truthy(b) == b = "true"

----------------------------------------------------------------------------
(* Helpers for each formula *)

RANGE_UNKNOWN == [type |-> "string", str |-> "UNKNOWN"]

\* a value of type number (where the type also admits RANGE_UNKNOWN)
Number(x) == [type |-> "number", num |-> x]

\* roundDownToStep rounding up to the next multiple
roundDownToStep_ceil(qty, step) ==
  IF RLe(step, Num(0)) THEN RMax(qty, Num(0))
  ELSE LET scaled     == RDiv(qty, step)
           ceiled     == Num(CeilMinusEps(scaled))
           rounded    == RMul(ceiled, step)
           normalized == IF IsFinite(rounded) THEN ToFixed8(rounded) ELSE Num(0)
       IN  IF RLt(normalized, Num(0)) THEN Num(0) ELSE normalized

roundDownToStep(qty, step) ==
  IF RLe(step, Num(0)) THEN RMax(qty, Num(0))
  ELSE LET scaled     == RDiv(qty, step)
           floored    == Num(FloorPlusEps(scaled))
           rounded    == RMul(floored, step)
           normalized == IF IsFinite(rounded) THEN ToFixed8(rounded) ELSE Num(0)
       IN  IF RLt(normalized, Num(0)) THEN Num(0) ELSE normalized

roundUpToStep(qty, step) ==
  IF RLe(step, Num(0)) THEN RMax(qty, Num(0))
  ELSE LET scaled     == RDiv(qty, step)
           ceiled     == Num(CeilMinusEps(scaled))
           rounded    == RMul(ceiled, step)
           normalized == IF IsFinite(rounded) THEN ToFixed8(rounded) ELSE Num(0)
       IN  IF RLt(normalized, Num(0)) THEN Num(0) ELSE normalized

Returned(v) == [threw |-> FALSE, value |-> v]
Thrown(msg) == [threw |-> TRUE, error |-> msg]

DefaultPercent == Rat(3, 10)
DefaultAtrMultiple == Rat(1, 2)
DefaultPoints == Num(0)

\* computeStop with the percent not divided by 100
computeStop_percentAsFraction(inp) ==
  CASE inp.stop.type = "fixed_percent" ->
         Returned(RMul(OrElse(inp.stop.percent, DefaultPercent), inp.level))
    [] inp.stop.type = "atr_multiple" ->
         Returned(RMul(OrElse(inp.stop.atrMultiple, DefaultAtrMultiple), inp.atr))
    [] inp.stop.type = "fixed_points" ->
         Returned(OrElse(inp.stop.points, DefaultPoints))
    [] OTHER -> Thrown("Unsupported stop type")

computeStop(inp) ==
  CASE inp.stop.type = "fixed_percent" ->
         Returned(RMul(RDiv(OrElse(inp.stop.percent, DefaultPercent), Num(100)),
                       inp.level))
    [] inp.stop.type = "atr_multiple" ->
         Returned(RMul(OrElse(inp.stop.atrMultiple, DefaultAtrMultiple), inp.atr))
    [] inp.stop.type = "fixed_points" ->
         Returned(OrElse(inp.stop.points, DefaultPoints))
    [] OTHER -> Thrown("Unsupported stop type")

computeBuffer(stop, bufferRatio) == RMul(stop, bufferRatio)

\* computeTvx entering a false breakout on the far side of the level
computeTvx_bySetup(inp, buffer) ==
  IF (inp.direction = "long") = (inp.setup = "breakout")
  THEN RAdd(inp.level, buffer)
  ELSE RSub(inp.level, buffer)

computeTvx(inp, buffer) ==
  IF inp.direction = "long" THEN RAdd(inp.level, buffer)
  ELSE RSub(inp.level, buffer)

\* computeSlPrice measuring the stop from tvx instead of level
computeSlPrice_fromTvx(inp, stop) ==
  LET tvx == computeTvx(inp, computeBuffer(stop, inp.bufferRatio))
  IN  IF inp.direction = "long" THEN RSub(tvx, stop) ELSE RAdd(tvx, stop)

computeSlPrice(inp, stop) ==
  IF inp.direction = "long" THEN RSub(inp.level, stop)
  ELSE RAdd(inp.level, stop)

\* computeTpPrice placing the target above tvx in both directions
computeTpPrice_longOnly(inp, tvx, stop) ==
  RAdd(tvx, RMul(inp.rrMultiple, stop))

computeTpPrice(inp, tvx, stop) ==
  IF inp.direction = "long" THEN RAdd(tvx, RMul(inp.rrMultiple, stop))
  ELSE RSub(tvx, RMul(inp.rrMultiple, stop))

----------------------------------------------------------------------------
(* Risk sizing + warnings *)

costPerUnit(stopValuePerUnit, feePerUnit) == RAdd(stopValuePerUnit, feePerUnit)

\* the guard of the unit-cost error
unitCostInvalid(unitCost) == ~IsFinite(unitCost) \/ RLe(unitCost, Num(0))

\* qtyRawOf sizing the notional mode by the unit cost
qtyRawOf_notionalByCost(inp, unitCost) ==
  LET riskProfile == inp.riskProfile IN
  CASE riskProfile.mode = "risk_cash" ->
         LET riskCash == OrElse(riskProfile.riskCash, Num(0))
         IN  RMax(Num(MathFloor(RDiv(riskCash, unitCost))), Num(0))
    [] riskProfile.mode = "risk_percent" ->
         LET accountSize == OrElse(riskProfile.accountSize, Num(0))
             riskCash == RDiv(RMul(accountSize,
                                   OrElse(riskProfile.riskPercent, Num(0))),
                              Num(100))
         IN  RMax(Num(MathFloor(RDiv(riskCash, unitCost))), Num(0))
    [] riskProfile.mode = "notional" ->
         LET notional == OrElse(riskProfile.notional, Num(0))
         IN  RMax(Num(MathFloor(RDiv(notional, unitCost))), Num(0))
    [] OTHER -> Num(0)

\* qtyRawOf taking an absent riskCash as the account size
qtyRawOf_accountAsCash(inp, unitCost) ==
  LET riskProfile == inp.riskProfile IN
  CASE riskProfile.mode = "risk_cash" ->
         LET riskCash == OrElse(riskProfile.riskCash,
                                OrElse(riskProfile.accountSize, Num(10000)))
         IN  RMax(Num(MathFloor(RDiv(riskCash, unitCost))), Num(0))
    [] riskProfile.mode = "risk_percent" ->
         LET accountSize == OrElse(riskProfile.accountSize, Num(0))
             riskCash == RDiv(RMul(accountSize,
                                   OrElse(riskProfile.riskPercent, Num(0))),
                              Num(100))
         IN  RMax(Num(MathFloor(RDiv(riskCash, unitCost))), Num(0))
    [] riskProfile.mode = "notional" ->
         LET notional == OrElse(riskProfile.notional, Num(0))
             denom == RMul(inp.level, inp.instrument.contractMultiplier)
         IN  IF RLt(Num(0), denom)
             THEN RMax(Num(MathFloor(RDiv(notional, denom))), Num(0))
             ELSE Num(0)
    [] OTHER -> Num(0)

\* qtyRaw by risk mode
qtyRawOf(inp, unitCost) ==
  LET riskProfile == inp.riskProfile IN
  CASE riskProfile.mode = "risk_cash" ->
         LET riskCash == OrElse(riskProfile.riskCash, Num(0))
         IN  RMax(Num(MathFloor(RDiv(riskCash, unitCost))), Num(0))
    [] riskProfile.mode = "risk_percent" ->
         LET accountSize == OrElse(riskProfile.accountSize, Num(0))
             riskCash == RDiv(RMul(accountSize,
                                   OrElse(riskProfile.riskPercent, Num(0))),
                              Num(100))
         IN  RMax(Num(MathFloor(RDiv(riskCash, unitCost))), Num(0))
    [] riskProfile.mode = "notional" ->
         LET notional == OrElse(riskProfile.notional, Num(0))
             denom == RMul(inp.level, inp.instrument.contractMultiplier)
         IN  IF RLt(Num(0), denom)
             THEN RMax(Num(MathFloor(RDiv(notional, denom))), Num(0))
             ELSE Num(0)
    [] OTHER -> Num(0)

\* step: the lot step, 1 when lotStep is not positive
stepOf(inp) ==
  IF RLt(Num(0), inp.instrument.lotStep) THEN inp.instrument.lotStep ELSE Num(1)

\* minLotAligned: the effective minimum-lot threshold
minLotAlignedOf(inp) ==
  LET minLot == IF RLt(Num(0), inp.instrument.minLot) THEN inp.instrument.minLot
                ELSE Num(0)
  IN  IF RLt(Num(0), minLot)
      THEN RMax(roundUpToStep(minLot, stepOf(inp)), minLot)
      ELSE Num(0)

\* quantity: the rounded quantity forced up to the threshold, at 8 decimals
quantityOf(roundedQty, minLotAligned) ==
  LET quantity == IF RLt(Num(0), minLotAligned)
                  THEN RMax(roundedQty, minLotAligned)
                  ELSE roundedQty
  IN  IF IsFinite(quantity) THEN ToFixed8(quantity) ELSE Num(0)

belowMinLotOf(roundedQty, minLotAligned, quantity) ==
  /\ RLt(Num(0), minLotAligned)
  /\ RLt(roundedQty, minLotAligned)
  /\ RLt(Num(0), quantity)

\* sizingOf deriving the used risk from the raw quantity
sizingOf_rawRisk(inp, unitCost, quantity, belowMinLot) ==
  [quantity     |-> quantity,
   usedRiskCash |-> RMul(qtyRawOf(inp, unitCost), unitCost),
   notional     |-> RMul(RMul(quantity, inp.level),
                         inp.instrument.contractMultiplier),
   estFees      |-> RMul(quantity, OrElse(inp.instrument.feePerUnit, Num(0))),
   belowMinLot  |-> belowMinLot]

\* the record calcQuantity returns
sizingOf(inp, unitCost, quantity, belowMinLot) ==
  [quantity     |-> quantity,
   usedRiskCash |-> RMul(quantity, unitCost),
   notional     |-> RMul(RMul(quantity, inp.level),
                         inp.instrument.contractMultiplier),
   estFees      |-> RMul(quantity, OrElse(inp.instrument.feePerUnit, Num(0))),
   belowMinLot  |-> belowMinLot]

alignToLot(inp, unitCost, roundedQty, minLotAligned, quantity) ==
  sizingOf(inp, unitCost, quantity,
           belowMinLotOf(roundedQty, minLotAligned, quantity))

alignToMinLot(inp, unitCost, roundedQty, minLotAligned) ==
  alignToLot(inp, unitCost, roundedQty, minLotAligned,
             quantityOf(roundedQty, minLotAligned))

\* the part of calcQuantity after the unit-cost check: lot alignment,
\* minimum lot and the derived amounts
lotSizing(inp, unitCost) ==
  alignToMinLot(inp, unitCost,
                roundDownToStep(qtyRawOf(inp, unitCost), stepOf(inp)),
                minLotAlignedOf(inp))

unitCostOf(inp, stop) ==
  LET feePerUnit == OrElse(inp.instrument.feePerUnit, Num(0))
      stopValuePerUnit == RMul(stop, inp.instrument.contractMultiplier)
  IN  costPerUnit(stopValuePerUnit, feePerUnit)

\* the unit-cost check and the return of calcQuantity
checkedSizing(inp, unitCost) ==
  IF unitCostInvalid(unitCost)
  THEN Thrown("Calculated unit cost must be positive and finite")
  ELSE Returned(lotSizing(inp, unitCost))

\* a sizing below the minimum lot thrown as an error
minLotFatal(q) ==
  IF ~q.threw /\ q.value.belowMinLot THEN Thrown("Qty is below minimum lot")
  ELSE q

\* calcQuantity treating a quantity below the minimum lot as fatal
calcQuantity_minLotFatal(inp, stop) ==
  minLotFatal(checkedSizing(inp, unitCostOf(inp, stop)))

\* calcQuantity skipping the unit-cost check in notional mode
calcQuantity_notionalUnchecked(inp, stop) ==
  IF inp.riskProfile.mode = "notional"
  THEN Returned(lotSizing(inp, unitCostOf(inp, stop)))
  ELSE checkedSizing(inp, unitCostOf(inp, stop))

calcQuantity(inp, stop) == checkedSizing(inp, unitCostOf(inp, stop))

\* collectWarnings appending the stop-filter warning before the range warning
collectWarnings_filterFirst(result) ==
     (IF result.atrCheckFailed THEN <<"ATR/Stop < 4">> ELSE <<>>)
  \o (IF result.stopFilterFailed THEN <<"Stop exceeds 20% ATR limit">> ELSE <<>>)
  \o (IF "rangeCheckFailed" \in DOMAIN result /\ result.rangeCheckFailed
      THEN <<"Range/Stop < 4">> ELSE <<>>)
  \o (IF result.belowMinLot THEN <<"Qty is below minimum lot">> ELSE <<>>)

\* result.rangeCheckFailed is optional: absent counts as false
collectWarnings(result) ==
     (IF result.atrCheckFailed THEN <<"ATR/Stop < 4">> ELSE <<>>)
  \o (IF "rangeCheckFailed" \in DOMAIN result /\ result.rangeCheckFailed
      THEN <<"Range/Stop < 4">> ELSE <<>>)
  \o (IF result.stopFilterFailed THEN <<"Stop exceeds 20% ATR limit">> ELSE <<>>)
  \o (IF result.belowMinLot THEN <<"Qty is below minimum lot">> ELSE <<>>)

----------------------------------------------------------------------------
(* Main functionality *)

NoError == "none"

\* baseInputError without the contract multiplier check
baseInputError_noMultiplier(inp) ==
  IF RLe(inp.level, Num(0)) THEN "Level must be greater than zero"
  ELSE IF RLe(inp.atr, Num(0)) THEN "ATR must be greater than zero"
  ELSE IF RLe(inp.rrMultiple, Num(0))
    THEN "Risk/reward multiple must be greater than zero"
  ELSE IF RLt(inp.bufferRatio, Num(0)) THEN "Buffer ratio must be non-negative"
  ELSE NoError

\* baseInputError checking atr before level
baseInputError_atrFirst(inp) ==
  IF RLe(inp.atr, Num(0)) THEN "ATR must be greater than zero"
  ELSE IF RLe(inp.level, Num(0)) THEN "Level must be greater than zero"
  ELSE IF RLe(inp.rrMultiple, Num(0))
    THEN "Risk/reward multiple must be greater than zero"
  ELSE IF RLt(inp.bufferRatio, Num(0)) THEN "Buffer ratio must be non-negative"
  ELSE IF RLe(inp.instrument.contractMultiplier, Num(0))
    THEN "Contract multiplier must be greater than zero"
  ELSE NoError

\* the five checks at the head of calculateTrade, in their order
baseInputError(inp) ==
  IF RLe(inp.level, Num(0)) THEN "Level must be greater than zero"
  ELSE IF RLe(inp.atr, Num(0)) THEN "ATR must be greater than zero"
  ELSE IF RLe(inp.rrMultiple, Num(0))
    THEN "Risk/reward multiple must be greater than zero"
  ELSE IF RLt(inp.bufferRatio, Num(0)) THEN "Buffer ratio must be non-negative"
  ELSE IF RLe(inp.instrument.contractMultiplier, Num(0))
    THEN "Contract multiplier must be greater than zero"
  ELSE NoError

\* stopInvalid letting a zero stop through
stopInvalid_strict(stop) == RLt(stop, Num(0))

\* the guard of the computed-stop error
stopInvalid(stop) == RLe(stop, Num(0))

\* rangeOverStopOf testing rangePassed for truthiness, so that 0 is unknown
rangeOverStopOf_truthy(inp, stop) ==
  IF inp.rangePassed # NULL /\ inp.rangePassed # Num(0)
  THEN Number(RDiv(inp.rangePassed, stop))
  ELSE RANGE_UNKNOWN

rangeOverStopOf(inp, stop) ==
  IF inp.rangePassed # NULL THEN Number(RDiv(inp.rangePassed, stop))
  ELSE RANGE_UNKNOWN

\* atrCheckFailedOf failing a ratio of exactly 4
atrCheckFailedOf_inclusive(atrOverStop) == RLe(atrOverStop, Num(4))

atrCheckFailedOf(atrOverStop) == RLt(atrOverStop, Num(4))

rangeCheckFailedFlagOf(rangeOverStop) ==
  IF rangeOverStop.type = "number" THEN RLt(rangeOverStop.num, Num(4))
  ELSE FALSE

hasFourStopsOf(atrCheckFailed, hasRange, rangeCheckFailedFlag) ==
  ~atrCheckFailed /\ (~hasRange \/ ~rangeCheckFailedFlag)

\* stopWithinFilterOf with a limit of 50% of atr
stopWithinFilterOf_half(inp, stop) ==
  ~Truthy(inp.enableAtrFilter) \/ RLe(stop, RMul(Rat(5, 10), inp.atr))

stopWithinFilterOf(inp, stop) ==
  ~Truthy(inp.enableAtrFilter) \/ RLe(stop, RMul(Rat(2, 10), inp.atr))

warningInputOf(atrCheckFailed, stopWithinFilter, belowMinLot, hasRange, rangeFlag) ==
  IF hasRange
  THEN [atrCheckFailed   |-> atrCheckFailed,
        stopFilterFailed |-> ~stopWithinFilter,
        belowMinLot      |-> belowMinLot,
        rangeCheckFailed |-> rangeFlag]
  ELSE [atrCheckFailed   |-> atrCheckFailed,
        stopFilterFailed |-> ~stopWithinFilter,
        belowMinLot      |-> belowMinLot]

\* currentPriceToTvx is set only when currentPrice is supplied
withCurrentPrice(inp, tvx, result) ==
  IF inp.currentPrice # NULL
  THEN [f \in DOMAIN result \cup {"currentPriceToTvx"} |->
          IF f = "currentPriceToTvx" THEN RSub(inp.currentPrice, tvx)
          ELSE result[f]]
  ELSE result

\* metaOf reporting usedNotional in every mode
metaOf_always(inp, usedRiskCash, notional) ==
  [usedRiskCash |-> usedRiskCash, usedNotional |-> notional]

\* usedNotional is set only in notional mode
metaOf(inp, usedRiskCash, notional) ==
  IF inp.riskProfile.mode = "notional"
  THEN [usedRiskCash |-> usedRiskCash, usedNotional |-> notional]
  ELSE [usedRiskCash |-> usedRiskCash]

tpDistanceOf(inp, tvx, tpPrice) ==
  IF inp.direction = "long" THEN RSub(tpPrice, tvx) ELSE RSub(tvx, tpPrice)

\* slDistanceOf not signed by direction
slDistanceOf_unsigned(inp, tvx, slPrice) == RSub(tvx, slPrice)

slDistanceOf(inp, tvx, slPrice) ==
  IF inp.direction = "long" THEN RSub(tvx, slPrice) ELSE RSub(slPrice, tvx)

stopAtrPercentOf(inp, stop) ==
  IF RLt(Num(0), inp.atr) THEN RMul(RDiv(stop, inp.atr), Num(100))
  ELSE POSITIVE_INFINITY

\* the diagnostics of calculateTrade: ratios, checks and the filter
diagnosticsOf(inp, stop, atrOverStop, rangeOverStop) ==
  [atrOverStop |-> atrOverStop,
   rangeOverStop |-> rangeOverStop,
   hasRange |-> rangeOverStop.type = "number",
   atrCheckFailed |-> atrCheckFailedOf(atrOverStop),
   rangeCheckFailedFlag |-> rangeCheckFailedFlagOf(rangeOverStop),
   hasFourStops |-> hasFourStopsOf(atrCheckFailedOf(atrOverStop),
                                   rangeOverStop.type = "number",
                                   rangeCheckFailedFlagOf(rangeOverStop)),
   stopWithinFilter |-> stopWithinFilterOf(inp, stop)]

\* the prices of calculateTrade
pricesOf(inp, stop, buffer, tvx) ==
  [buffer  |-> buffer,
   tvx     |-> tvx,
   slPrice |-> computeSlPrice(inp, stop),
   tpPrice |-> computeTpPrice(inp, tvx, stop)]

\* the result and meta calculateTrade returns
responseOf(inp, stop, p, d, q) ==
  [status |-> "ok",
   result |->
     withCurrentPrice(inp, p.tvx,
       [direction |-> inp.direction,
        setup |-> inp.setup,
        level |-> inp.level,
        stop |-> stop,
        buffer |-> p.buffer,
        tvx |-> p.tvx,
        slPrice |-> p.slPrice,
        tpPrice |-> p.tpPrice,
        rrMultiple |-> inp.rrMultiple,
        atrOverStop |-> d.atrOverStop,
        rangeOverStop |-> d.rangeOverStop,
        hasFourStops |-> d.hasFourStops,
        stopWithinAtrFilter |-> d.stopWithinFilter,
        warnings |-> collectWarnings(
                       warningInputOf(d.atrCheckFailed, d.stopWithinFilter,
                                      q.belowMinLot, d.hasRange,
                                      d.rangeCheckFailedFlag)),
        quantity |-> q.quantity,
        notional |-> q.notional,
        belowMinLot |-> q.belowMinLot,
        positionSummary |->
          [riskCash |-> q.usedRiskCash,
           estFees  |-> q.estFees,
           pnlAtTp  |-> RMul(RMul(tpDistanceOf(inp, p.tvx, p.tpPrice),
                                  q.quantity),
                             inp.instrument.contractMultiplier),
           pnlAtSl  |-> RMul(RMul(RNeg(slDistanceOf(inp, p.tvx, p.slPrice)),
                                  q.quantity),
                             inp.instrument.contractMultiplier)],
        stopAtrPercent |-> stopAtrPercentOf(inp, stop)]),
   meta |-> metaOf(inp, q.usedRiskCash, q.notional)]

\* the end of calculateTrade: the sizing's error, or the response
finish(inp, stop, p, d, q) ==
  IF q.threw THEN [status |-> "error", message |-> q.error]
  ELSE responseOf(inp, stop, p, d, q.value)

withTvx(inp, stop, buffer, tvx) ==
  finish(inp, stop, pricesOf(inp, stop, buffer, tvx),
         diagnosticsOf(inp, stop, RDiv(inp.atr, stop), rangeOverStopOf(inp, stop)),
         calcQuantity(inp, stop))

withBuffer(inp, stop, buffer) ==
  withTvx(inp, stop, buffer, computeTvx(inp, buffer))

\* the part of calculateTrade after the stop has passed its check
assemble(inp, stop) ==
  withBuffer(inp, stop, computeBuffer(stop, inp.bufferRatio))

\* the stop's check and what follows it
checkedStop(inp, s) ==
  IF s.threw THEN [status |-> "error", message |-> s.error]
  ELSE IF stopInvalid(s.value)
    THEN [status |-> "error",
          message |-> "Computed stop must be greater than zero"]
  ELSE assemble(inp, s.value)

calculateTrade(inp) ==
  IF baseInputError(inp) # NoError
  THEN [status |-> "error", message |-> baseInputError(inp)]
  ELSE checkedStop(inp, computeStop(inp))

----------------------------------------------------------------------------
(* Inputs of the calculation *)

\* stop parameters run over k/2 (percent, points) and k/4 (atrMultiple),
\* k in -1..MaxStopK
MaxStopK == 2

\* rangePassed runs over 2*k, k in 0..MaxRangeK
MaxRangeK == 2

\* riskCash runs over 10^k, k in 1..MaxRiskExp
MaxRiskExp == 2

Optional(S) == {NULL} \cup S

StopKs == -1..MaxStopK

\* a value for the fields of the stop types other than the selected one
Junk == Num(7)

StopFields(type, param, other) ==
  [type        |-> type,
   percent     |-> IF type = "fixed_percent" THEN param ELSE other,
   atrMultiple |-> IF type = "atr_multiple" THEN param ELSE other,
   points      |-> IF type = "fixed_points" THEN param ELSE other]

\* the stop records whose unselected fields are drawn from Others; "trailing"
\* stands for a type outside the StopType enum
StopInputsOver(Others) ==
     {StopFields("fixed_percent", p, o) :
        p \in Optional({Rat(k, 2) : k \in StopKs}), o \in Others}
  \cup {StopFields("atr_multiple", p, o) :
        p \in Optional({Rat(k, 4) : k \in StopKs}), o \in Others}
  \cup {StopFields("fixed_points", p, o) :
        p \in Optional({Rat(k, 2) : k \in StopKs}), o \in Others}
  \cup {StopFields("trailing", Num(1), Num(1))}

BareStopInputs == StopInputsOver({NULL})

StopInputs == StopInputsOver({NULL, Junk})

BaseInstrument ==
  [symbol |-> "TEST", contractMultiplier |-> Num(1), lotStep |-> Num(1),
   minLot |-> Num(1), feePerUnit |-> Rat(1, 5), priceTick |-> NULL]

BaseRisk ==
  [mode |-> "risk_cash", accountSize |-> NULL, riskCash |-> Num(100),
   riskPercent |-> NULL, notional |-> NULL]

BaseInput ==
  [direction |-> "long", setup |-> "breakout", level |-> Num(100),
   atr |-> Num(2), rrMultiple |-> Num(3),
   stop |-> StopFields("fixed_points", Rat(1, 2), NULL),
   bufferRatio |-> Rat(1, 5), rangePassed |-> NULL, currentPrice |-> NULL,
   enableAtrFilter |-> "true", instrument |-> BaseInstrument,
   riskProfile |-> BaseRisk]

\* inputs around the fatal checks: every base field valid or not, the stop
\* positive or not, the fee making the unit cost positive or not
ValidationInputs ==
  {[BaseInput EXCEPT !.level = lv, !.atr = a, !.rrMultiple = rr,
                     !.bufferRatio = b, !.stop = st,
                     !.instrument.contractMultiplier = cm,
                     !.instrument.feePerUnit = fee] :
     lv \in {Num(-1), Num(0), Num(100)},
     a  \in {Num(-1), Num(0), Num(2)},
     rr \in {Num(-1), Num(0), Num(3)},
     b  \in {Rat(-1, 5), Num(0), Rat(1, 5)},
     cm \in {Num(-1), Num(0), Num(1)},
     fee \in {NULL, Num(-1), Rat(1, 5)},
     st \in BareStopInputs}

\* inputs around the formulas and the diagnostics
FormulaInputs ==
  {[BaseInput EXCEPT !.direction = dir, !.level = lv, !.atr = a,
                     !.rrMultiple = rr, !.bufferRatio = b, !.stop = st,
                     !.rangePassed = rng, !.enableAtrFilter = eaf,
                     !.riskProfile.riskCash = rc] :
     dir \in {"long", "short"},
     lv  \in {Num(50), Num(100)},
     a   \in {Num(2), Num(5)},
     rr  \in {Num(2), Num(3)},
     b   \in {Num(0), Rat(1, 5)},
     st  \in StopInputs,
     rng \in Optional({Num(2 * k) : k \in 0..MaxRangeK}),
     eaf \in {"undefined", "true", "false"},
     rc  \in {Num(0)} \cup {Num(Pow10(k)) : k \in 1..MaxRiskExp}}

RiskInputs ==
     {[BaseRisk EXCEPT !.riskCash = rc] :
        rc \in Optional({Num(0), Num(-5), Num(10), Num(100)})}
  \cup {[BaseRisk EXCEPT !.mode = "risk_percent", !.riskCash = NULL,
                         !.accountSize = acc, !.riskPercent = pct] :
        acc \in Optional({Num(10000)}),
        pct \in Optional({Num(1), Rat(1, 20)})}
  \cup {[BaseRisk EXCEPT !.mode = "notional", !.riskCash = NULL,
                         !.notional = ntl] :
        ntl \in Optional({Num(550), Num(20000)})}

\* inputs around the position sizer
SizingInputs ==
  {[BaseInput EXCEPT !.setup = su, !.currentPrice = cp, !.stop = st,
                     !.riskProfile = risk,
                     !.instrument.lotStep = ls, !.instrument.minLot = ml,
                     !.instrument.feePerUnit = fee,
                     !.instrument.contractMultiplier = cm] :
     su   \in {"breakout", "false_breakout"},
     cp   \in Optional({Rat(199, 2)}),
     st   \in {StopFields("fixed_points", Rat(1, 2), NULL),
               StopFields("fixed_percent", NULL, NULL)},
     risk \in RiskInputs,
     ls   \in {Num(0), Num(1), Num(5), Rat(1, 2), Rat(3, 10)},
     ml   \in {Num(0), Num(1), Rat(3, 4), Num(25)},
     fee  \in {NULL, Num(-1), Num(0), Rat(1, 5)},
     cm   \in {Num(1), Num(100)}}

\* minimum lots just above a multiple of the lot step, within the 1e-9
\* tolerance of roundUpToStep: 40.00000002 on a step of 40, and 1.000000001
\* (more than 8 decimals) on a step of 1
EdgeLots ==
  {[lotStep |-> Num(40), minLot |-> Rat(2000000001, 50000000)],
   [lotStep |-> Num(1), minLot |-> Rat(1000000001, 1000000000)]}

\* inputs around the tolerance of the lot rounding
EdgeInputs ==
  {[BaseInput EXCEPT !.direction = dir, !.level = Num(1), !.atr = Num(4),
                     !.rrMultiple = Num(1), !.bufferRatio = Num(0),
                     !.stop = StopFields("fixed_points", Num(1), NULL),
                     !.riskProfile.riskCash = rc,
                     !.instrument.lotStep = lot.lotStep,
                     !.instrument.minLot = lot.minLot,
                     !.instrument.feePerUnit = fee] :
     dir \in {"long", "short"},
     rc  \in Optional({Num(0), Num(2)}),
     lot \in EdgeLots,
     fee \in Optional({Num(0)})}

\* a lot step of 20.00000001: a raw quantity of 20 lies within the 1e-9
\* tolerance of roundDownToStep below one step
EdgeSteps == {Rat(2000000001, 100000000)}

\* a budget of 20 units at a unit cost of 1, in each risk mode
EdgeRisks ==
  {[BaseRisk EXCEPT !.riskCash = Num(20)],
   [BaseRisk EXCEPT !.mode = "risk_percent", !.riskCash = NULL,
                    !.accountSize = Num(2000), !.riskPercent = Num(1)],
   [BaseRisk EXCEPT !.mode = "notional", !.riskCash = NULL,
                    !.notional = Num(20)]}

\* inputs around the tolerance of the rounding down to the lot step
StepEdgeInputs ==
  {[BaseInput EXCEPT !.direction = dir, !.level = Num(1), !.atr = Num(4),
                     !.rrMultiple = Num(1), !.bufferRatio = Num(0),
                     !.stop = StopFields("fixed_points", Num(1), NULL),
                     !.riskProfile = risk,
                     !.instrument.lotStep = ls,
                     !.instrument.minLot = Num(0),
                     !.instrument.feePerUnit = Num(0)] :
     dir \in {"long", "short"}, risk \in EdgeRisks, ls \in EdgeSteps}

----------------------------------------------------------------------------
(* The popup: form state, validation and the result rows *)

FORM_STORAGE_KEY == "trade_scope_form_state_v1"
PRESET_STORAGE_KEY == "trade_scope_presets_v1"

DEFAULT_STATE ==
  [direction |-> "long",
   setups |-> [breakout |-> TRUE, false_breakout |-> TRUE],
   level |-> Num(100), atr |-> Num(2), rrMultiple |-> Num(3),
   bufferRatio |-> Rat(1, 5), rangePassed |-> NULL, currentPrice |-> NULL,
   enableAtrFilter |-> TRUE,
   stopSettings |-> [percent |-> Rat(3, 10), atrMultiple |-> Rat(1, 2),
                     points |-> Num(1)],
   risk |-> [mode |-> "risk_cash", riskCash |-> Num(100),
             riskPercent |-> Num(1), accountSize |-> Num(10000),
             notional |-> Num(50000)],
   instrument |-> [symbol |-> "TICKER", contractMultiplier |-> Num(1),
                   lotStep |-> Num(1), minLot |-> Num(1),
                   feePerUnit |-> Rat(1, 5), priceTick |-> Rat(1, 100)]]

stopTypes == <<"fixed_percent", "atr_multiple", "fixed_points">>

setupOrder == <<"breakout", "false_breakout">>

\* the delay of saveStateDebounced, in ms
DELAY == 400

\* String.prototype.trim on the texts that occur
Trim(value) ==
  CASE value = " " -> ""
    [] value = " a " -> "a"
    [] OTHER -> value

\* Number(value) on the texts that occur; NaN is not finite
ToNumber(value) ==
  CASE value = "-1" -> Num(-1)
    [] value = "0" -> Num(0)
    [] value = "2" -> Num(2)
    [] OTHER -> [n |-> 0, d |-> 0]

parseNullableNumber(value) ==
  IF Trim(value) = "" THEN NULL
  ELSE IF IsFinite(ToNumber(value)) THEN ToNumber(value) ELSE NULL

\* String.prototype.toUpperCase on the texts that occur
ToUpperCase(value) == IF value = "abc" THEN "ABC" ELSE value

\* JSON.parse(JSON.stringify(x)) of a number or null
jsonNumber(x) == IF IsFinite(x) THEN x ELSE NULL

\* JSON round trip of a RiskState or an InstrumentState
cloneState(value) ==
  [f \in DOMAIN value |->
     IF f \in {"mode", "symbol"} THEN value[f] ELSE jsonNumber(value[f])]

normalizeNullable(value, fallback) == IF value = NULL THEN fallback ELSE value

mergeFormState(incoming) ==
  [direction |-> incoming.direction,
   setups |-> incoming.setups,
   level |-> normalizeNullable(incoming.level, DEFAULT_STATE.level),
   atr |-> normalizeNullable(incoming.atr, DEFAULT_STATE.atr),
   rrMultiple |-> normalizeNullable(incoming.rrMultiple,
                                    DEFAULT_STATE.rrMultiple),
   bufferRatio |-> normalizeNullable(incoming.bufferRatio,
                                     DEFAULT_STATE.bufferRatio),
   rangePassed |-> normalizeNullable(incoming.rangePassed, NULL),
   currentPrice |-> normalizeNullable(incoming.currentPrice, NULL),
   enableAtrFilter |-> incoming.enableAtrFilter,
   stopSettings |->
     [f \in DOMAIN incoming.stopSettings |->
        normalizeNullable(incoming.stopSettings[f],
                          DEFAULT_STATE.stopSettings[f])],
   risk |->
     [f \in DOMAIN incoming.risk |->
        IF f = "mode" THEN incoming.risk.mode
        ELSE normalizeNullable(incoming.risk[f], DEFAULT_STATE.risk[f])],
   instrument |->
     [f \in DOMAIN incoming.instrument |->
        IF f = "symbol" THEN incoming.instrument.symbol
        ELSE normalizeNullable(incoming.instrument[f],
                               DEFAULT_STATE.instrument[f])]]

hydratePreset(preset) ==
  [id |-> preset.id,
   name |-> preset.name,
   risk |->
     [f \in DOMAIN preset.risk |->
        IF f = "mode" THEN preset.risk.mode
        ELSE normalizeNullable(preset.risk[f], DEFAULT_STATE.risk[f])],
   instrument |->
     [f \in DOMAIN preset.instrument |->
        IF f = "symbol" THEN preset.instrument.symbol
        ELSE normalizeNullable(preset.instrument[f],
                               DEFAULT_STATE.instrument[f])]]

\* the switch of handleFormInput: the form state after an input event
formAfterInput(state, name, value, checked) ==
  CASE name = "direction" -> [state EXCEPT !.direction = value]
    [] name = "setup_breakout" -> [state EXCEPT !.setups.breakout = checked]
    [] name = "setup_false_breakout" ->
         [state EXCEPT !.setups.false_breakout = checked]
    [] name = "level" -> [state EXCEPT !.level = parseNullableNumber(value)]
    [] name = "atr" -> [state EXCEPT !.atr = parseNullableNumber(value)]
    [] name = "rrMultiple" ->
         [state EXCEPT !.rrMultiple = parseNullableNumber(value)]
    [] name = "bufferRatio" ->
         [state EXCEPT !.bufferRatio = parseNullableNumber(value)]
    [] name = "rangePassed" ->
         [state EXCEPT !.rangePassed = parseNullableNumber(value)]
    [] name = "currentPrice" ->
         [state EXCEPT !.currentPrice = parseNullableNumber(value)]
    [] name = "stop_percent" ->
         [state EXCEPT !.stopSettings.percent = parseNullableNumber(value)]
    [] name = "stop_atrMultiple" ->
         [state EXCEPT !.stopSettings.atrMultiple = parseNullableNumber(value)]
    [] name = "stop_points" ->
         [state EXCEPT !.stopSettings.points = parseNullableNumber(value)]
    [] name = "enableAtrFilter" -> [state EXCEPT !.enableAtrFilter = checked]
    [] name = "risk_mode" -> [state EXCEPT !.risk.mode = value]
    [] name = "risk_cash" ->
         [state EXCEPT !.risk.riskCash = parseNullableNumber(value)]
    [] name = "risk_percent" ->
         [state EXCEPT !.risk.riskPercent = parseNullableNumber(value)]
    [] name = "risk_accountSize" ->
         [state EXCEPT !.risk.accountSize = parseNullableNumber(value)]
    [] name = "risk_notional" ->
         [state EXCEPT !.risk.notional = parseNullableNumber(value)]
    [] name = "instrument_symbol" ->
         [state EXCEPT !.instrument.symbol = ToUpperCase(value)]
    [] name = "instrument_contractMultiplier" ->
         [state EXCEPT !.instrument.contractMultiplier =
                         parseNullableNumber(value)]
    [] name = "instrument_lotStep" ->
         [state EXCEPT !.instrument.lotStep = parseNullableNumber(value)]
    [] name = "instrument_minLot" ->
         [state EXCEPT !.instrument.minLot = parseNullableNumber(value)]
    [] name = "instrument_feePerUnit" ->
         [state EXCEPT !.instrument.feePerUnit = parseNullableNumber(value)]
    [] OTHER -> state

isPositive(value) == value # NULL /\ RLt(Num(0), value)

isNonNegative(value) == value # NULL /\ RLe(Num(0), value)

\* the keys of FormErrors
ErrorKeys ==
  {"setups", "level", "atr", "rrMultiple", "bufferRatio", "stopPercent",
   "stopAtrMultiple", "stopPoints", "riskCash", "riskPercent", "accountSize",
   "notional", "contractMultiplier", "lotStep", "minLot", "feePerUnit"}

\* the message validateState sets under a key, "" when it sets none
errorOf(state, key) ==
  CASE key = "setups" ->
         IF ~state.setups.breakout /\ ~state.setups.false_breakout
         THEN "Select at least one setup" ELSE ""
    [] key = "level" ->
         IF ~isPositive(state.level)
         THEN "Level must be greater than zero" ELSE ""
    [] key = "atr" ->
         IF ~isPositive(state.atr) THEN "ATR must be greater than zero" ELSE ""
    [] key = "rrMultiple" ->
         IF ~isPositive(state.rrMultiple)
         THEN "RR must be greater than zero" ELSE ""
    [] key = "bufferRatio" ->
         IF ~isNonNegative(state.bufferRatio)
         THEN "Buffer ratio must be >= 0" ELSE ""
    [] key = "stopPercent" ->
         IF ~isPositive(state.stopSettings.percent)
         THEN "Provide stop % value" ELSE ""
    [] key = "stopAtrMultiple" ->
         IF ~isPositive(state.stopSettings.atrMultiple)
         THEN "Provide ATR multiple" ELSE ""
    [] key = "stopPoints" ->
         IF ~isPositive(state.stopSettings.points)
         THEN "Provide stop points" ELSE ""
    [] key = "contractMultiplier" ->
         IF ~isPositive(state.instrument.contractMultiplier)
         THEN "Contract multiplier must be > 0" ELSE ""
    [] key = "lotStep" ->
         IF ~isPositive(state.instrument.lotStep)
         THEN "Lot step must be > 0" ELSE ""
    [] key = "minLot" ->
         IF ~isNonNegative(state.instrument.minLot)
         THEN "Min lot must be >= 0" ELSE ""
    [] key = "feePerUnit" ->
         IF ~isNonNegative(state.instrument.feePerUnit)
         THEN "Fee must be >= 0" ELSE ""
    [] key = "riskCash" ->
         IF state.risk.mode = "risk_cash" /\ ~isPositive(state.risk.riskCash)
         THEN "Risk per trade required" ELSE ""
    [] key = "riskPercent" ->
         IF state.risk.mode = "risk_percent"
            /\ ~isPositive(state.risk.riskPercent)
         THEN "Risk % required" ELSE ""
    [] key = "accountSize" ->
         IF state.risk.mode = "risk_percent"
            /\ ~isPositive(state.risk.accountSize)
         THEN "Account size required" ELSE ""
    [] key = "notional" ->
         IF state.risk.mode = "notional" /\ ~isPositive(state.risk.notional)
         THEN "Notional required" ELSE ""

validateState(state) ==
  [key \in {k \in ErrorKeys : errorOf(state, k) # ""} |-> errorOf(state, key)]

\* the keys firstFatalError looks at, in its order
fatalOrder ==
  <<"setups", "level", "atr", "rrMultiple", "bufferRatio",
    "contractMultiplier", "lotStep", "riskCash", "riskPercent", "accountSize",
    "notional">>

\* the first message under the keys of order, "" for undefined
RECURSIVE firstErrorIn(_, _, _)
firstErrorIn(errors, order, i) ==
  IF i > Len(order) THEN ""
  ELSE IF order[i] \in DOMAIN errors THEN errors[order[i]]
  ELSE firstErrorIn(errors, order, i + 1)

\* firstFatalError without the bufferRatio key
firstFatalError_noBuffer(errors) ==
  firstErrorIn(errors,
               SelectSeq(fatalOrder, LAMBDA k : k # "bufferRatio"), 1)

firstFatalError(errors) == firstErrorIn(errors, fatalOrder, 1)

getStopValue(state, stopType) ==
  CASE stopType = "fixed_percent" -> state.stopSettings.percent
    [] stopType = "atr_multiple" -> state.stopSettings.atrMultiple
    [] stopType = "fixed_points" -> state.stopSettings.points
    [] OTHER -> NULL

buildStopConfig(stopType, stopSettings) ==
  IF stopType = "fixed_percent"
  THEN StopFields("fixed_percent", OrElse(stopSettings.percent, Num(0)), NULL)
  ELSE IF stopType = "atr_multiple"
  THEN StopFields("atr_multiple", OrElse(stopSettings.atrMultiple, Num(0)),
                  NULL)
  ELSE StopFields("fixed_points", OrElse(stopSettings.points, Num(0)), NULL)

\* the message validateRiskForMode returns, "" for null
validateRiskForMode(risk) ==
  IF risk.mode = "risk_cash" /\ ~isPositive(risk.riskCash)
  THEN "Risk per trade required"
  ELSE IF risk.mode = "risk_percent" /\ ~isPositive(risk.riskPercent)
  THEN "Risk % required"
  ELSE IF risk.mode = "risk_percent" /\ ~isPositive(risk.accountSize)
  THEN "Account size required"
  ELSE IF risk.mode = "notional" /\ ~isPositive(risk.notional)
  THEN "Notional required"
  ELSE ""

\* the error computeRow returns before it builds the input, "" when none
rowGuard(state, errors, stopType) ==
  IF firstFatalError(errors) # "" THEN firstFatalError(errors)
  ELSE IF ~isPositive(state.level) \/ ~isPositive(state.atr)
          \/ ~isPositive(state.rrMultiple)
  THEN "Provide base trade inputs"
  ELSE IF ~isPositive(getStopValue(state, stopType))
  THEN "Stop parameters missing"
  ELSE IF ~isPositive(state.instrument.contractMultiplier)
          \/ ~isPositive(state.instrument.lotStep)
  THEN "Instrument configuration incomplete"
  ELSE validateRiskForMode(state.risk)

\* the TradeInput computeRow builds
tradeInputOf(state, setup, stopType) ==
  [direction |-> state.direction,
   setup |-> setup,
   level |-> state.level,
   atr |-> state.atr,
   rrMultiple |-> state.rrMultiple,
   stop |-> buildStopConfig(stopType, state.stopSettings),
   bufferRatio |-> OrElse(state.bufferRatio, Num(0)),
   rangePassed |-> state.rangePassed,
   currentPrice |-> state.currentPrice,
   enableAtrFilter |-> IF state.enableAtrFilter THEN "true" ELSE "false",
   instrument |->
     [symbol |-> state.instrument.symbol,
      contractMultiplier |-> OrElse(state.instrument.contractMultiplier, Num(1)),
      lotStep |-> OrElse(state.instrument.lotStep, Num(1)),
      minLot |-> OrElse(state.instrument.minLot, Num(0)),
      feePerUnit |-> OrElse(state.instrument.feePerUnit, Num(0)),
      priceTick |-> state.instrument.priceTick],
   riskProfile |->
     [mode |-> state.risk.mode,
      accountSize |-> state.risk.accountSize,
      riskCash |-> state.risk.riskCash,
      riskPercent |-> state.risk.riskPercent,
      notional |-> state.risk.notional]]

rowId(setup, stopType) == setup \o "_" \o stopType

errorRow(setup, stopType, error) ==
  [id |-> rowId(setup, stopType), setup |-> setup, stopType |-> stopType,
   error |-> error]

responseRow(setup, stopType, response) ==
  [id |-> rowId(setup, stopType), setup |-> setup, stopType |-> stopType,
   response |-> response]

\* the try of computeRow letting the exception escape
rowOfCall_uncaught(setup, stopType, response) ==
  IF response.status = "error" THEN Thrown(response.message)
  ELSE responseRow(setup, stopType, response)

\* the try/catch around calculateTrade
rowOfCall(setup, stopType, response) ==
  IF response.status = "error"
  THEN errorRow(setup, stopType, response.message)
  ELSE responseRow(setup, stopType, response)

computeRow(state, errors, setup, stopType) ==
  IF rowGuard(state, errors, stopType) # ""
  THEN errorRow(setup, stopType, rowGuard(state, errors, stopType))
  ELSE rowOfCall(setup, stopType,
                 calculateTrade(tradeInputOf(state, setup, stopType)))

activeSetups(state) == SelectSeq(setupOrder, LAMBDA setup : state.setups[setup])

\* the pairs with the stop types in the outer loop
rowPairs_stopMajor(active) ==
  [i \in 1..(Len(active) * Len(stopTypes)) |->
     [setup |-> active[((i - 1) % Len(active)) + 1],
      stopType |-> stopTypes[((i - 1) \div Len(active)) + 1]]]

\* the (setup, stopType) pairs in the order of the two loops
rowPairs(active) ==
  [i \in 1..(Len(active) * Len(stopTypes)) |->
     [setup |-> active[((i - 1) \div Len(stopTypes)) + 1],
      stopType |-> stopTypes[((i - 1) % Len(stopTypes)) + 1]]]

rowsOver(state, errors, pairs) ==
  [i \in 1..Len(pairs) |->
     computeRow(state, errors, pairs[i].setup, pairs[i].stopType)]

buildResultRows(state, errors) ==
  IF Len(activeSetups(state)) = 0 THEN <<>>
  ELSE rowsOver(state, errors, rowPairs(activeSetups(state)))

\* the inputs calculateTrade is invoked with while the rows are built
invokedOver(state, pairs) ==
  [i \in 1..Len(pairs) |->
     tradeInputOf(state, pairs[i].setup, pairs[i].stopType)]

invocations(state, errors) ==
  invokedOver(state,
              SelectSeq(rowPairs(activeSetups(state)),
                        LAMBDA p : rowGuard(state, errors, p.stopType) = ""))

----------------------------------------------------------------------------
(* The popup: presets, the debounced save and the handlers *)

\* the bound on the save requests of a behaviour
MaxRequests == 2

\* the readings of Date.now() run over 1..MaxClock
MaxClock == 2

\* the instants observed within one delay of the debounce
Slices == 2

Quantum == DELAY \div Slices

Clock == 1..MaxClock

\* selectedPresetId = null
NoSelection == "null"

RiskModes == {"risk_cash", "risk_percent", "notional"}

\* the texts typed into the number inputs
Texts == {"", "abc", "-1", "0", "2"}

NumberInputs ==
  {"level", "atr", "rrMultiple", "bufferRatio", "rangePassed", "currentPrice",
   "stop_percent", "stop_atrMultiple", "stop_points", "risk_cash",
   "risk_percent", "risk_accountSize", "risk_notional",
   "instrument_contractMultiplier", "instrument_lotStep", "instrument_minLot",
   "instrument_feePerUnit"}

CheckboxInputs == {"setup_breakout", "setup_false_breakout", "enableAtrFilter"}

\* the input events of the form: the target's name, value and checked
FormEvents ==
       {[name |-> n, value |-> v, checked |-> FALSE] :
          n \in NumberInputs, v \in Texts}
  \cup {[name |-> n, value |-> "on", checked |-> c] :
          n \in CheckboxInputs, c \in BOOLEAN}
  \cup {[name |-> "direction", value |-> v, checked |-> FALSE] :
          v \in {"long", "short"}}
  \cup {[name |-> "risk_mode", value |-> v, checked |-> FALSE] :
          v \in RiskModes}
  \cup {[name |-> n, value |-> "abc", checked |-> FALSE] :
          n \in {"instrument_symbol", "instrument_priceTick", ""}}

\* what window.prompt returns: null when cancelled, else the text
PromptAnswers ==
       {[cancelled |-> TRUE, text |-> ""]}
  \cup {[cancelled |-> FALSE, text |-> t] : t \in {"", " ", "a", " a ", "b"}}

\* the name passes both checks of handleSavePreset
nameGiven(answer) ==
  ~answer.cancelled /\ answer.text # "" /\ Trim(answer.text) # ""

newPreset(state, trimmed, now) ==
  [id |-> ToString(now), name |-> trimmed,
   risk |-> cloneState(state.risk),
   instrument |-> cloneState(state.instrument)]

\* handleSavePreset keeping the presets of the same name
presetsAfterSave_keepOld(list, preset) == Append(list, preset)

presetsAfterSave(list, preset) ==
  Append(SelectSeq(list, LAMBDA item : item.name # preset.name), preset)

\* presets.find((p) => p.id === id), where some preset has that id
findPreset(list, id) ==
  list[CHOOSE i \in 1..Len(list) :
         /\ list[i].id = id
         /\ \A j \in 1..(i - 1) : list[j].id # id]

applyPreset(state, preset) ==
  [state EXCEPT !.risk = cloneState(preset.risk),
                !.instrument = cloneState(preset.instrument)]

\* the items saveStateDebounced hands to storageSet
itemsOf(state, list) ==
  [key \in {FORM_STORAGE_KEY, PRESET_STORAGE_KEY} |->
     IF key = FORM_STORAGE_KEY THEN state ELSE list]

\* chrome.storage.local.set, when the storage area exists
storageSet(area, items) ==
  IF ~area.available THEN area
  ELSE [area EXCEPT !.items =
          [key \in DOMAIN area.items \cup DOMAIN items |->
             IF key \in DOMAIN items THEN items[key] ELSE area.items[key]]]

\* the debounced function keeping a pending timer
saveStateDebounced_keepTimer(pending) ==
  IF pending > 0 THEN pending ELSE DELAY

\* the debounced function: the pending timer is cleared, a new one is set
saveStateDebounced(pending) == DELAY

\* a form saved by an earlier session
StoredForm ==
  [DEFAULT_STATE EXCEPT !.direction = "short", !.level = NULL,
                        !.stopSettings.points = Num(2),
                        !.instrument.feePerUnit = Num(-1)]

\* presets saved by an earlier session, with distinct names
StoredPresets ==
  <<[id |-> "1", name |-> "a",
     risk |-> [DEFAULT_STATE.risk EXCEPT !.mode = "notional"],
     instrument |-> [DEFAULT_STATE.instrument EXCEPT !.symbol = "ES",
                                                     !.lotStep = Num(2)]],
    [id |-> "2", name |-> "b",
     risk |-> [DEFAULT_STATE.risk EXCEPT !.riskCash = NULL],
     instrument |-> [DEFAULT_STATE.instrument EXCEPT !.minLot = NULL]]>>

\* chrome.storage.local when the popup opens
StoredAreas ==
  {[available |-> FALSE, items |-> <<>>],
   [available |-> TRUE, items |-> <<>>],
   [available |-> TRUE, items |-> itemsOf(StoredForm, StoredPresets)]}

\* loadInitialState
loadedForm(area) ==
  IF area.available /\ FORM_STORAGE_KEY \in DOMAIN area.items
  THEN mergeFormState(area.items[FORM_STORAGE_KEY])
  ELSE DEFAULT_STATE

loadedPresets(area) ==
  IF area.available /\ PRESET_STORAGE_KEY \in DOMAIN area.items
  THEN [i \in 1..Len(area.items[PRESET_STORAGE_KEY]) |->
          hydratePreset(area.items[PRESET_STORAGE_KEY][i])]
  ELSE <<>>

\* the popup is not open
PopupClosed ==
  /\ formState = DEFAULT_STATE
  /\ presets = <<>>
  /\ formErrors = <<>>
  /\ selectedPresetId = NoSelection
  /\ rows = <<>>
  /\ calls = <<>>
  /\ timer = 0
  /\ storage = [available |-> FALSE, items |-> <<>>]
  /\ writes = 0
  /\ requests = 0

----------------------------------------------------------------------------
(* The state machine: one call of calculateTrade on an input *)

Pending == [status |-> "pending"]

Init ==
  /\ \/ input \in ValidationInputs
     \/ input \in FormulaInputs
     \/ input \in SizingInputs
     \/ input \in EdgeInputs
     \/ input \in StepEdgeInputs
  /\ pc = "call"
  /\ out = Pending
  /\ PopupClosed

CalculateTrade ==
  /\ pc = "call"
  /\ out' = calculateTrade(input)
  /\ pc' = "done"
  /\ UNCHANGED input
  /\ UNCHANGED popupVars

Next == CalculateTrade

Spec == Init /\ [][Next]_vars

----------------------------------------------------------------------------
(* The state machine of the popup *)

\* the state after init()
PopupInit ==
  /\ input = BaseInput
  /\ pc = "popup"
  /\ out = Pending
  /\ storage \in StoredAreas
  /\ formState = loadedForm(storage)
  /\ presets = loadedPresets(storage)
  /\ formErrors = validateState(formState)
  /\ rows = buildResultRows(formState, formErrors)
  /\ calls = invocations(formState, formErrors)
  /\ selectedPresetId = NoSelection
  /\ timer = 0
  /\ writes = 0
  /\ requests = 0

\* recompute() on the form state
Recompute(state) ==
  /\ formErrors' = validateState(state)
  /\ rows' = buildResultRows(state, validateState(state))
  /\ calls' = invocations(state, validateState(state))

\* saveStateDebounced()
SaveRequested ==
  /\ timer' = saveStateDebounced(timer)
  /\ writes' = 0
  /\ requests' = requests + 1
  /\ UNCHANGED storage

HandleFormInput ==
  /\ pc = "popup"
  /\ requests < MaxRequests
  /\ \E ev \in FormEvents :
       IF ev.name = "" THEN UNCHANGED vars
       ELSE /\ formState' =
                 formAfterInput(formState, ev.name, ev.value, ev.checked)
            /\ SaveRequested
            /\ Recompute(formState')
            /\ UNCHANGED <<presets, selectedPresetId, calcVars>>

HandleFormChange ==
  /\ pc = "popup"
  /\ requests < MaxRequests
  /\ \E name \in {"risk_mode", "level"}, value \in RiskModes :
       IF name # "risk_mode" THEN UNCHANGED vars
       ELSE /\ formState' = [formState EXCEPT !.risk.mode = value]
            /\ SaveRequested
            /\ Recompute(formState')
            /\ UNCHANGED <<presets, selectedPresetId, calcVars>>

\* the click on the recalc button
Recalc ==
  /\ pc = "popup"
  /\ Recompute(formState)
  /\ UNCHANGED <<formState, presets, selectedPresetId, timer, storage, writes,
                 requests, calcVars>>

\* handleCopy: the rows are built when the clipboard exists
HandleCopy ==
  /\ pc = "popup"
  /\ \E clipboard \in BOOLEAN :
       IF ~clipboard THEN UNCHANGED vars
       ELSE /\ calls' = invocations(formState, formErrors)
            /\ UNCHANGED <<formState, presets, formErrors, selectedPresetId,
                           rows, timer, storage, writes, requests, calcVars>>

HandleExport ==
  /\ pc = "popup"
  /\ \E format \in {"csv", "json"} :
       /\ calls' = invocations(formState, formErrors)
       /\ UNCHANGED <<formState, presets, formErrors, selectedPresetId, rows,
                      timer, storage, writes, requests, calcVars>>

HandleSavePreset ==
  /\ pc = "popup"
  /\ requests < MaxRequests
  /\ \E answer \in PromptAnswers, now \in Clock :
       IF ~nameGiven(answer) THEN UNCHANGED vars
       ELSE /\ presets' =
                 presetsAfterSave(presets,
                                  newPreset(formState, Trim(answer.text), now))
            /\ selectedPresetId' = ToString(now)
            /\ SaveRequested
            /\ UNCHANGED <<formState, formErrors, rows, calls, calcVars>>

\* the change of the preset select: the preset chosen is applied
PresetSelected ==
  /\ pc = "popup"
  /\ requests < MaxRequests
  /\ \E value \in {""} \cup {presets[i].id : i \in 1..Len(presets)} :
       IF value = ""
       THEN /\ selectedPresetId' = NoSelection
            /\ UNCHANGED <<formState, presets, formErrors, rows, calls, timer,
                           storage, writes, requests, calcVars>>
       ELSE /\ selectedPresetId' = value
            /\ formState' = applyPreset(formState, findPreset(presets, value))
            /\ Recompute(formState')
            /\ SaveRequested
            /\ UNCHANGED <<presets, calcVars>>

\* time passes while the timer of the debounce is pending
TimePasses ==
  /\ pc = "popup"
  /\ timer > Quantum
  /\ timer' = timer - Quantum
  /\ UNCHANGED <<formState, presets, formErrors, selectedPresetId, rows, calls,
                 storage, writes, requests, calcVars>>

\* the timer expires: the callback of saveStateDebounced runs
TimerFires ==
  /\ pc = "popup"
  /\ timer > 0
  /\ timer <= Quantum
  /\ timer' = 0
  /\ storage' = storageSet(storage, itemsOf(formState, presets))
  /\ writes' = IF writes < 2 THEN writes + 1 ELSE writes
  /\ UNCHANGED <<formState, presets, formErrors, selectedPresetId, rows, calls,
                 requests, calcVars>>

PopupNext ==
  \/ HandleFormInput
  \/ HandleFormChange
  \/ Recalc
  \/ HandleCopy
  \/ HandleExport
  \/ HandleSavePreset
  \/ PresetSelected
  \/ TimePasses
  \/ TimerFires

Popup == PopupInit /\ [][PopupNext]_vars

\* the browser runs a pending timer
PopupLive == Popup /\ WF_vars(TimePasses) /\ WF_vars(TimerFires)

----------------------------------------------------------------------------
(* Properties of calculateTrade *)

Done == pc = "done"
Ok == Done /\ out.status = "ok"
Failed == Done /\ out.status = "error"

InSeq(x, seq) == \E i \in 1..Len(seq) : seq[i] = x

MsgLevel == "Level must be greater than zero"
MsgAtr == "ATR must be greater than zero"
MsgRr == "Risk/reward multiple must be greater than zero"
MsgBuffer == "Buffer ratio must be non-negative"
MsgMultiplier == "Contract multiplier must be greater than zero"
MsgStop == "Computed stop must be greater than zero"
MsgUnitCost == "Calculated unit cost must be positive and finite"

WarnAtr == "ATR/Stop < 4"
WarnRange == "Range/Stop < 4"
WarnFilter == "Stop exceeds 20% ATR limit"
WarnMinLot == "Qty is below minimum lot"

BaseInvalid(inp) ==
  \/ RLe(inp.level, Num(0))
  \/ RLe(inp.atr, Num(0))
  \/ RLe(inp.rrMultiple, Num(0))
  \/ RLt(inp.bufferRatio, Num(0))
  \/ RLe(inp.instrument.contractMultiplier, Num(0))

SupportedStop(inp) ==
  inp.stop.type \in {"fixed_percent", "atr_multiple", "fixed_points"}

\* the stop distance as the stop table states it
TableStop(inp) ==
  CASE inp.stop.type = "fixed_percent" ->
         RMul(RDiv(IF inp.stop.percent = NULL THEN Rat(3, 10)
                   ELSE inp.stop.percent, Num(100)), inp.level)
    [] inp.stop.type = "atr_multiple" ->
         RMul(IF inp.stop.atrMultiple = NULL THEN Rat(1, 2)
              ELSE inp.stop.atrMultiple, inp.atr)
    [] inp.stop.type = "fixed_points" ->
         IF inp.stop.points = NULL THEN Num(0) ELSE inp.stop.points

\* stop * contractMultiplier + feePerUnit, an absent fee counting as 0
TableUnitCost(inp) ==
  RAdd(RMul(TableStop(inp), inp.instrument.contractMultiplier),
       IF inp.instrument.feePerUnit = NULL THEN Num(0)
       ELSE inp.instrument.feePerUnit)

Computable(inp) ==
  /\ ~BaseInvalid(inp)
  /\ SupportedStop(inp)
  /\ RLt(Num(0), TableStop(inp))
  /\ RLt(Num(0), TableUnitCost(inp))

\* C1: an input with level<=0, atr<=0, rrMultiple<=0, bufferRatio<0 or
\* contractMultiplier<=0 makes calculateTrade throw: the caller gets an
\* error and neither result nor meta, whatever the other fields are.
C1_FatalBaseInput ==
  (Done /\ BaseInvalid(input)) =>
     /\ out.status = "error"
     /\ DOMAIN out = {"status", "message"}

C1_Witness ==
  /\ Failed
  /\ RLt(Num(0), input.level) /\ RLt(Num(0), input.atr)
  /\ RLt(Num(0), input.rrMultiple) /\ RLe(Num(0), input.bufferRatio)
  /\ RLe(input.instrument.contractMultiplier, Num(0))
  /\ out.message = MsgMultiplier

\* C2: warnings never abort: an input with valid base fields, a supported
\* stop type, a positive stop and a positive unit cost yields a result and
\* meta however many warnings fire, and an input that fails is one that
\* breaks one of these conditions.
C2_WarningsNeverAbort ==
  Done =>
     /\ Computable(input) <=> out.status = "ok"
     /\ out.status = "ok" => DOMAIN out = {"status", "result", "meta"}
     /\ out.status = "error" =>
          out.message \in {MsgLevel, MsgAtr, MsgRr, MsgBuffer, MsgMultiplier,
                           MsgStop, MsgUnitCost, "Unsupported stop type"}

C2_Witness ==
  /\ Ok
  /\ Computable(input)
  /\ out.result.warnings = <<WarnAtr, WarnRange, WarnFilter, WarnMinLot>>

\* C3: the base fields are validated before anything is derived and in the
\* order level, atr, rrMultiple, bufferRatio, contractMultiplier: the error
\* is that of the first failing check, and a base-input error wins over the
\* computed-stop and unit-cost errors.
C3_ValidationOrder ==
  Done =>
     /\ RLe(input.level, Num(0)) => (Failed /\ out.message = MsgLevel)
     /\ (RLt(Num(0), input.level) /\ RLe(input.atr, Num(0)))
          => (Failed /\ out.message = MsgAtr)
     /\ (RLt(Num(0), input.level) /\ RLt(Num(0), input.atr)
         /\ RLe(input.rrMultiple, Num(0)))
          => (Failed /\ out.message = MsgRr)
     /\ (RLt(Num(0), input.level) /\ RLt(Num(0), input.atr)
         /\ RLt(Num(0), input.rrMultiple) /\ RLt(input.bufferRatio, Num(0)))
          => (Failed /\ out.message = MsgBuffer)
     /\ (RLt(Num(0), input.level) /\ RLt(Num(0), input.atr)
         /\ RLt(Num(0), input.rrMultiple) /\ RLe(Num(0), input.bufferRatio)
         /\ RLe(input.instrument.contractMultiplier, Num(0)))
          => (Failed /\ out.message = MsgMultiplier)
     /\ (Failed /\ out.message \in {MsgStop, MsgUnitCost})
          => ~BaseInvalid(input)

C3_Witness ==
  /\ Failed
  /\ RLe(input.level, Num(0))
  /\ RLe(input.atr, Num(0))
  /\ RLe(input.instrument.contractMultiplier, Num(0))
  /\ SupportedStop(input) /\ RLe(TableStop(input), Num(0))
  /\ input.instrument.feePerUnit # NULL
  /\ RLt(input.instrument.feePerUnit, Num(0))
  /\ out.message = MsgLevel

\* C4: the stop of a successful result is (percent/100)*level, atrMultiple*atr
\* or points by stop type, with 0.3, 0.5 and 0 for an absent parameter; the
\* fields of the other stop types do not enter.
C4_StopByType == Ok => out.result.stop = TableStop(input)

C4_Witness ==
  /\ Ok
  /\ input.stop.type = "fixed_percent"
  /\ input.stop.percent = NULL
  /\ input.stop.points = Junk /\ input.stop.atrMultiple = Junk
  /\ out.result.stop = RMul(Rat(3, 1000), input.level)

\* C5: with valid base fields a computed stop <= 0 fails with the
\* computed-stop error, and no successful result has stop <= 0.
C5_StopPositive ==
  /\ (Done /\ ~BaseInvalid(input) /\ SupportedStop(input)
      /\ RLe(TableStop(input), Num(0)))
       => (Failed /\ out.message = MsgStop /\ DOMAIN out = {"status", "message"})
  /\ Ok => RLt(Num(0), out.result.stop)

C5_Witness ==
  /\ Failed
  /\ ~BaseInvalid(input)
  /\ input.stop.type = "fixed_points"
  /\ input.stop.points = NULL
  /\ out.message = MsgStop

\* C6: buffer = stop*bufferRatio; tvx = level +/- buffer; slPrice =
\* level -/+ stop (measured from level); tpPrice = tvx +/- rrMultiple*stop
\* (measured from tvx); upper signs for long, lower for short.
C6_PriceFormulas ==
  Ok =>
    LET r == out.result IN
    /\ r.buffer = RMul(r.stop, input.bufferRatio)
    /\ input.direction = "long" =>
         /\ r.tvx = RAdd(input.level, r.buffer)
         /\ r.slPrice = RSub(input.level, r.stop)
         /\ r.tpPrice = RAdd(r.tvx, RMul(input.rrMultiple, r.stop))
    /\ input.direction = "short" =>
         /\ r.tvx = RSub(input.level, r.buffer)
         /\ r.slPrice = RAdd(input.level, r.stop)
         /\ r.tpPrice = RSub(r.tvx, RMul(input.rrMultiple, r.stop))

C6_Witness ==
  /\ Ok
  /\ input.direction = "short"
  /\ RLt(Num(0), out.result.buffer)
  /\ out.result.slPrice = RAdd(input.level, out.result.stop)
  /\ out.result.slPrice # RAdd(out.result.tvx, out.result.stop)

\* C7: the warnings are exactly the entries of <<ATR/Stop, Range/Stop,
\* stop filter, minimum lot>> whose condition holds, in that order:
\* atrOverStop < 4; rangePassed supplied and rangeOverStop < 4;
\* stopWithinAtrFilter false; belowMinLot true.
C7_WarningsExact ==
  Ok =>
    LET r == out.result IN
    r.warnings =
         (IF RLt(r.atrOverStop, Num(4)) THEN <<WarnAtr>> ELSE <<>>)
      \o (IF input.rangePassed # NULL /\ r.rangeOverStop.type = "number"
             /\ RLt(r.rangeOverStop.num, Num(4))
          THEN <<WarnRange>> ELSE <<>>)
      \o (IF ~r.stopWithinAtrFilter THEN <<WarnFilter>> ELSE <<>>)
      \o (IF r.belowMinLot THEN <<WarnMinLot>> ELSE <<>>)

C7_Witness ==
  /\ Ok
  /\ out.result.warnings = <<WarnRange, WarnFilter>>

\* C8: an absent enableAtrFilter counts as true: with stop > 0.2*atr the
\* result has stopWithinAtrFilter = false and the stop-filter warning.
C8_FilterDefaultsOn ==
  (Ok /\ input.enableAtrFilter = "undefined"
      /\ RLt(RMul(Rat(1, 5), input.atr), out.result.stop))
    => /\ out.result.stopWithinAtrFilter = FALSE
       /\ InSeq(WarnFilter, out.result.warnings)

\* C9: stopWithinAtrFilter is true exactly when enableAtrFilter is false or
\* stop <= 0.2*atr; with the filter disabled there is no stop-filter warning.
C9_StopFilterIff ==
  Ok =>
    /\ out.result.stopWithinAtrFilter <=>
         (input.enableAtrFilter = "false"
          \/ RLe(out.result.stop, RMul(Rat(1, 5), input.atr)))
    /\ input.enableAtrFilter = "false" =>
         ~InSeq(WarnFilter, out.result.warnings)

\* C10: hasFourStops is true exactly when atr/stop >= 4 and rangePassed is
\* absent or rangePassed/stop >= 4, a ratio of exactly 4 passing; that is,
\* exactly when neither ratio warning is among the warnings.
C10_FourStops ==
  Ok =>
    LET r == out.result IN
    /\ r.hasFourStops <=>
         /\ RLe(Num(4), RDiv(input.atr, r.stop))
         /\ (input.rangePassed = NULL
             \/ RLe(Num(4), RDiv(input.rangePassed, r.stop)))
    /\ r.hasFourStops <=>
         (~InSeq(WarnAtr, r.warnings) /\ ~InSeq(WarnRange, r.warnings))

C10_Witness ==
  /\ Ok
  /\ input.atr = RMul(Num(4), out.result.stop)
  /\ input.rangePassed # NULL
  /\ input.rangePassed = RMul(Num(4), out.result.stop)
  /\ out.result.hasFourStops
  /\ ~InSeq(WarnAtr, out.result.warnings)
  /\ ~InSeq(WarnRange, out.result.warnings)

\* C11: rangeOverStop is the UNKNOWN sentinel exactly when rangePassed is
\* absent; a supplied rangePassed, 0 included, gives the number
\* rangePassed/stop, and the sentinel is not a number.
C11_RangeSentinel ==
  Ok =>
    LET r == out.result IN
    /\ (r.rangeOverStop.type = "string") <=> (input.rangePassed = NULL)
    /\ r.rangeOverStop.type = "string" => r.rangeOverStop = RANGE_UNKNOWN
    /\ input.rangePassed # NULL =>
         /\ r.rangeOverStop.type = "number"
         /\ r.rangeOverStop.num = RDiv(input.rangePassed, r.stop)
    /\ RANGE_UNKNOWN.type # "number"

C11_Witness ==
  /\ Ok
  /\ input.rangePassed = Num(0)
  /\ out.result.rangeOverStop = Number(Num(0))

\* |x| <= 1e-8
WithinTolerance(x) == Abs(x.n) <= x.d \div Pow10(FIXED_DIGITS)

\* the integer nearest to x
Nearest(x) ==
  LET f == MathFloor(x)
      r == x.n - f * x.d
  IN  IF r >= x.d - r THEN f + 1 ELSE f

\* the distance of q from the nearest multiple of step (step > 0)
OffStep(q, step) == RSub(q, RMul(Num(Nearest(RDiv(q, step))), step))

\* C12: with lotStep > 0 the final quantity of a successful result is a
\* multiple of lotStep within 1e-8, in every risk mode and also when it was
\* forced up to a minimum lot that is not a multiple of lotStep.
C12_QuantityOnStep ==
  (Ok /\ RLt(Num(0), input.instrument.lotStep)) =>
     WithinTolerance(OffStep(out.result.quantity, input.instrument.lotStep))

RawQuantity(inp) ==
  LET rp == inp.riskProfile
      orZero(x) == IF x = NULL THEN Num(0) ELSE x
  IN  CASE rp.mode = "risk_cash" ->
             RMax(Num(0), Num(MathFloor(RDiv(orZero(rp.riskCash),
                                             TableUnitCost(inp)))))
        [] rp.mode = "risk_percent" ->
             RMax(Num(0),
                  Num(MathFloor(RDiv(RDiv(RMul(orZero(rp.accountSize),
                                               orZero(rp.riskPercent)),
                                          Num(100)),
                                     TableUnitCost(inp)))))
        [] rp.mode = "notional" ->
             RMax(Num(0),
                  Num(MathFloor(RDiv(orZero(rp.notional),
                                     RMul(inp.level,
                                          inp.instrument.contractMultiplier)))))

\* step = lotStep if lotStep > 0 else 1
LotStepOrOne(inp) ==
  IF RLt(Num(0), inp.instrument.lotStep) THEN inp.instrument.lotStep ELSE Num(1)

\* threshold = max(roundUp(minLot, step), minLot) if minLot > 0 else 0
MinLotThreshold(inp) ==
  IF RLt(Num(0), inp.instrument.minLot)
  THEN RMax(roundUpToStep(inp.instrument.minLot, LotStepOrOne(inp)),
            inp.instrument.minLot)
  ELSE Num(0)

\* the raw quantity rounded down to a multiple of step
RoundedQuantity(inp) == roundDownToStep(RawQuantity(inp), LotStepOrOne(inp))

\* C14: the final quantity is max(roundedQty, threshold) when the
\* minimum-lot threshold is positive and roundedQty otherwise; hence with
\* minLot > 0 the final quantity is at least minLot.
C14_QuantityFloor ==
  Ok =>
    /\ out.result.quantity =
         IF RLt(Num(0), MinLotThreshold(input))
         THEN RMax(RoundedQuantity(input), MinLotThreshold(input))
         ELSE RoundedQuantity(input)
    /\ RLt(Num(0), input.instrument.minLot) =>
         \/ out.result.quantity = input.instrument.minLot
         \/ RLt(input.instrument.minLot, out.result.quantity)

\* C15: belowMinLot is true exactly when the threshold is positive, the
\* lot-rounded raw quantity is strictly below it and the final quantity is
\* positive; then the final quantity equals the threshold; a rounded
\* quantity equal to the threshold gives belowMinLot = false.
C15_BelowMinLot ==
  Ok =>
    /\ out.result.belowMinLot <=>
         /\ RLt(Num(0), MinLotThreshold(input))
         /\ RLt(RoundedQuantity(input), MinLotThreshold(input))
         /\ RLt(Num(0), out.result.quantity)
    /\ out.result.belowMinLot =>
         out.result.quantity = MinLotThreshold(input)
    /\ RoundedQuantity(input) = MinLotThreshold(input) =>
         ~out.result.belowMinLot

\* C16: the raw quantity is max(0, floor(B/unitCost)) with B = riskCash
\* (risk_cash) or accountSize*riskPercent/100 (risk_percent), and
\* max(0, floor(notional/(level*contractMultiplier))) in notional mode,
\* whatever the stop and the fee; it is never negative.  With a step of 1
\* and no minimum lot it is the final quantity.
C16_RawQuantity ==
  Ok =>
    /\ qtyRawOf(input, unitCostOf(input, out.result.stop)) = RawQuantity(input)
    /\ RLe(Num(0), RawQuantity(input))
    /\ (LotStepOrOne(input) = Num(1) /\ RLe(input.instrument.minLot, Num(0)))
         => out.result.quantity = RawQuantity(input)

C16_Witness ==
  /\ Ok
  /\ input.riskProfile.mode = "notional"
  /\ input.riskProfile.notional = Num(20000)
  /\ input.instrument.feePerUnit = Rat(1, 5)
  /\ input.instrument.contractMultiplier = Num(1)
  /\ input.instrument.lotStep = Num(1)
  /\ input.instrument.minLot = Num(0)
  /\ out.result.quantity = Num(200)

\* C17: with unitCost = stop*contractMultiplier + feePerUnit, a unit cost
\* <= 0 (only possible with a negative fee) fails with the unit-cost error
\* in every risk mode; with valid base fields, stop > 0 and fee >= 0 the
\* error never occurs, and a successful result has stop > 0 and unitCost > 0.
C17_UnitCost ==
  (Done /\ ~BaseInvalid(input) /\ SupportedStop(input)
        /\ RLt(Num(0), TableStop(input))) =>
     /\ RLe(TableUnitCost(input), Num(0)) =>
          /\ Failed /\ out.message = MsgUnitCost
          /\ input.instrument.feePerUnit # NULL
          /\ RLt(input.instrument.feePerUnit, Num(0))
     /\ (input.instrument.feePerUnit = NULL
         \/ RLe(Num(0), input.instrument.feePerUnit)) => Ok
     /\ Ok => /\ RLt(Num(0), out.result.stop)
              /\ RLt(Num(0), TableUnitCost(input))
              /\ out.result.positionSummary.riskCash =
                   RMul(out.result.quantity, TableUnitCost(input))

C17_Witness ==
  /\ Failed
  /\ input.riskProfile.mode = "notional"
  /\ RLt(input.instrument.feePerUnit, Num(0))
  /\ RLe(TableUnitCost(input), Num(0))
  /\ out.message = MsgUnitCost

\* C18: estFees = quantity*feePerUnit, notional = quantity*level*
\* contractMultiplier and positionSummary.riskCash = quantity*unitCost, all
\* from the final quantity (after lot rounding and minimum-lot forcing).
C18_DerivedAmounts ==
  Ok =>
    LET r == out.result
        fee == IF input.instrument.feePerUnit = NULL THEN Num(0)
               ELSE input.instrument.feePerUnit
    IN  /\ r.positionSummary.estFees = RMul(r.quantity, fee)
        /\ r.notional = RMul(RMul(r.quantity, input.level),
                             input.instrument.contractMultiplier)
        /\ r.positionSummary.riskCash = RMul(r.quantity, TableUnitCost(input))

C18_Witness ==
  /\ Ok
  /\ out.result.belowMinLot
  /\ out.result.quantity = Num(25)
  /\ RawQuantity(input) = Num(14)
  /\ out.result.positionSummary.riskCash = RMul(Num(25), TableUnitCost(input))
  /\ out.result.positionSummary.estFees = Num(5)

\* C19: pnlAtTp = tpDistance*quantity*contractMultiplier and pnlAtSl =
\* -slDistance*quantity*contractMultiplier with the distances signed by
\* direction; so pnlAtTp = rrMultiple*stop*quantity*contractMultiplier >= 0
\* and pnlAtSl = -(stop+buffer)*quantity*contractMultiplier <= 0.
C19_Pnl ==
  Ok =>
    LET r  == out.result
        cm == input.instrument.contractMultiplier
        tpDistance == IF input.direction = "long" THEN RSub(r.tpPrice, r.tvx)
                      ELSE RSub(r.tvx, r.tpPrice)
        slDistance == IF input.direction = "long" THEN RSub(r.tvx, r.slPrice)
                      ELSE RSub(r.slPrice, r.tvx)
    IN  /\ r.positionSummary.pnlAtTp = RMul(RMul(tpDistance, r.quantity), cm)
        /\ r.positionSummary.pnlAtSl =
             RMul(RMul(RNeg(slDistance), r.quantity), cm)
        /\ r.positionSummary.pnlAtTp =
             RMul(RMul(RMul(input.rrMultiple, r.stop), r.quantity), cm)
        /\ r.positionSummary.pnlAtSl =
             RMul(RMul(RNeg(RAdd(r.stop, r.buffer)), r.quantity), cm)
        /\ RLe(Num(0), r.positionSummary.pnlAtTp)
        /\ RLe(r.positionSummary.pnlAtSl, Num(0))

C19_Witness ==
  /\ Ok
  /\ input.direction = "short"
  /\ RLt(Num(0), out.result.buffer)
  /\ RLt(Num(0), out.result.quantity)
  /\ RLt(Num(0), out.result.positionSummary.pnlAtTp)
  /\ RLt(out.result.positionSummary.pnlAtSl, Num(0))

\* C20: meta.usedRiskCash is always present and equals
\* positionSummary.riskCash; meta.usedNotional is present exactly in
\* notional mode, and then equals result.notional.
C20_Meta ==
  Ok =>
    /\ "usedRiskCash" \in DOMAIN out.meta
    /\ out.meta.usedRiskCash = out.result.positionSummary.riskCash
    /\ ("usedNotional" \in DOMAIN out.meta)
         <=> (input.riskProfile.mode = "notional")
    /\ input.riskProfile.mode = "notional" =>
         out.meta.usedNotional = out.result.notional
    /\ DOMAIN out.meta \subseteq {"usedRiskCash", "usedNotional"}

C20_Witness ==
  /\ Ok
  /\ input.riskProfile.mode = "notional"
  /\ out.meta.usedNotional = out.result.notional
  /\ RLt(Num(0), out.meta.usedNotional)
  /\ out.meta.usedRiskCash = out.result.positionSummary.riskCash

\* the other setup tag
OtherSetup(setup) == IF setup = "breakout" THEN "false_breakout" ELSE "breakout"

\* the other direction
OtherDirection(dir) == IF dir = "long" THEN "short" ELSE "long"

\* out and o2 fail with the same error, or both succeed with equal meta and
\* results equal in every field but setup
SameButSetup(o1, o2) ==
  IF o1.status = "error" THEN o2 = o1
  ELSE /\ o2.status = "ok"
       /\ o2.meta = o1.meta
       /\ [o2.result EXCEPT !.setup = o1.result.setup] = o1.result

\* C21: the setup tag is informational: flipping it changes nothing but
\* result.setup, which echoes the input; instrument.symbol and
\* instrument.priceTick change nothing at all.
C21_SetupInformational ==
  Done =>
    /\ SameButSetup(out, calculateTrade(
                           [input EXCEPT !.setup = OtherSetup(input.setup)]))
    /\ Ok => out.result.setup = input.setup
    /\ calculateTrade([input EXCEPT !.instrument.symbol = "OTHER"]) = out
    /\ calculateTrade([input EXCEPT !.instrument.priceTick = Rat(1, 100)]) = out

C21_Witness ==
  /\ Ok
  /\ input.setup = "false_breakout"
  /\ out.result.setup = "false_breakout"
  /\ RLt(Num(0), out.result.buffer)
  /\ RLt(Num(0), out.result.quantity)

\* the risk budget B of the risk_cash and risk_percent modes
Budget(inp) ==
  LET rp == inp.riskProfile
      orZero(x) == IF x = NULL THEN Num(0) ELSE x
  IN  IF rp.mode = "risk_cash" THEN orZero(rp.riskCash)
      ELSE RDiv(RMul(orZero(rp.accountSize), orZero(rp.riskPercent)), Num(100))

RiskMode(inp) == inp.riskProfile.mode \in {"risk_cash", "risk_percent"}

\* C22: with belowMinLot false, the risk used (quantity*unitCost) does not
\* exceed a non-negative budget B in the risk modes, and result.notional
\* does not exceed riskProfile.notional in notional mode.
C22_WithinBudget ==
  (Ok /\ ~out.result.belowMinLot) =>
    /\ (RiskMode(input) /\ RLe(Num(0), Budget(input))) =>
         /\ out.result.positionSummary.riskCash =
              RMul(out.result.quantity, TableUnitCost(input))
         /\ RLe(out.result.positionSummary.riskCash, Budget(input))
    /\ input.riskProfile.mode = "notional" =>
         RLe(out.result.notional,
             IF input.riskProfile.notional = NULL THEN Num(0)
             ELSE input.riskProfile.notional)

IsInteger(x) == x.d = 1

\* quantity*unitCost <= B < (quantity + lotStep)*unitCost
LargestWithinBudget(inp, quantity) ==
  /\ RLe(RMul(quantity, TableUnitCost(inp)), Budget(inp))
  /\ RLt(Budget(inp),
         RMul(RAdd(quantity, inp.instrument.lotStep), TableUnitCost(inp)))

C24_FilterImpliesAtrCheck ==
  (Ok /\ input.enableAtrFilter = "true") =>
    /\ out.result.stopWithinAtrFilter =>
         /\ RLe(Num(5), out.result.atrOverStop)
         /\ ~InSeq(WarnAtr, out.result.warnings)
    /\ InSeq(WarnAtr, out.result.warnings) =>
         InSeq(WarnFilter, out.result.warnings)
    /\ (out.result.stopWithinAtrFilter /\ ~out.result.hasFourStops) =>
         /\ out.result.rangeOverStop # RANGE_UNKNOWN
         /\ RLt(out.result.rangeOverStop.num, Num(4))
         /\ InSeq(WarnRange, out.result.warnings)

C24_Witness ==
  /\ Ok
  /\ input.enableAtrFilter = "true"
  /\ out.result.stopWithinAtrFilter
  /\ ~out.result.hasFourStops
  /\ InSeq(WarnRange, out.result.warnings)

\* long value - level = level - short value
Mirrored(level, a, b) == RSub(a, level) = RSub(level, b)

\* C25: flipping the direction keeps the failure, or keeps stop, buffer,
\* the ratios, the flags, the warnings, the sizing, the P&L and meta, and
\* mirrors tvx, slPrice and tpPrice about level.
C25_DirectionSymmetry ==
  Done =>
    LET o2 == calculateTrade(
                [input EXCEPT !.direction = OtherDirection(input.direction)])
        Same(r1, r2) ==
          /\ r1.stop = r2.stop
          /\ r1.buffer = r2.buffer
          /\ r1.atrOverStop = r2.atrOverStop
          /\ r1.rangeOverStop = r2.rangeOverStop
          /\ r1.hasFourStops = r2.hasFourStops
          /\ r1.stopWithinAtrFilter = r2.stopWithinAtrFilter
          /\ r1.warnings = r2.warnings
          /\ r1.quantity = r2.quantity
          /\ r1.notional = r2.notional
          /\ r1.belowMinLot = r2.belowMinLot
          /\ r1.positionSummary = r2.positionSummary
          /\ Mirrored(input.level, r1.tvx, r2.tvx)
          /\ Mirrored(input.level, r1.slPrice, r2.slPrice)
          /\ Mirrored(input.level, r1.tpPrice, r2.tpPrice)
    IN  IF out.status = "error" THEN o2 = out
        ELSE /\ o2.status = "ok"
             /\ o2.meta = out.meta
             /\ Same(out.result, o2.result)

C25_Witness ==
  /\ Ok
  /\ input.direction = "short"
  /\ RLt(out.result.tvx, input.level)
  /\ RLt(input.level, out.result.slPrice)
  /\ RLt(out.result.tpPrice, out.result.tvx)
  /\ RLt(Num(0), out.result.quantity)
  /\ RLt(Num(0), out.result.positionSummary.pnlAtTp)

----------------------------------------------------------------------------
(* Properties of the popup *)

Open == pc = "popup"

EnabledSetups(state) ==
  {setup \in {"breakout", "false_breakout"} : state.setups[setup]}

\* the rows of one setup, in the order of the stop types
PairsOf(setup) ==
  <<[setup |-> setup, stopType |-> "fixed_percent"],
    [setup |-> setup, stopType |-> "atr_multiple"],
    [setup |-> setup, stopType |-> "fixed_points"]>>

\* the cross-product of the enabled setups and the stop types, breakout first
ExpectedPairs(state) ==
     (IF state.setups.breakout THEN PairsOf("breakout") ELSE <<>>)
  \o (IF state.setups.false_breakout THEN PairsOf("false_breakout") ELSE <<>>)

\* C26: the rows are one per (enabled setup, stop type) pair, 3 per enabled
\* setup, with unique ids, breakout before false_breakout and within a
\* setup fixed_percent, atr_multiple, fixed_points; with no setup enabled
\* there are no rows and calculateTrade is not called.
C26_RowFanOut ==
  Open =>
    /\ Len(rows) = 3 * Cardinality(EnabledSetups(formState))
    /\ [i \in 1..Len(rows) |->
          [setup |-> rows[i].setup, stopType |-> rows[i].stopType]]
         = ExpectedPairs(formState)
    /\ \A i, j \in 1..Len(rows) : i # j => rows[i].id # rows[j].id
    /\ EnabledSetups(formState) = {} => (rows = <<>> /\ calls = <<>>)

C26_Witness ==
  /\ Open
  /\ ~formState.setups.breakout
  /\ formState.setups.false_breakout
  /\ Len(rows) = 3
  /\ rows[1].id = "false_breakout_fixed_percent"
  /\ rows[3].id = "false_breakout_fixed_points"

RowFields == {"id", "setup", "stopType"}

\* C27: every row carries exactly one of error or response; an exception
\* of calculateTrade is that row's error message, and the rows after a
\* failing one are still computed.
C27_RowErrors ==
  Open =>
    /\ Len(rows) = Len(ExpectedPairs(formState))
    /\ \A i \in 1..Len(rows) :
         /\ \/ DOMAIN rows[i] = RowFields \cup {"error"}
            \/ DOMAIN rows[i] = RowFields \cup {"response"}
         /\ rowGuard(formState, formErrors, rows[i].stopType) = "" =>
              LET call == calculateTrade(
                            tradeInputOf(formState, rows[i].setup,
                                         rows[i].stopType))
              IN  IF call.status = "error"
                  THEN /\ "error" \in DOMAIN rows[i]
                       /\ rows[i].error = call.message
                  ELSE /\ "response" \in DOMAIN rows[i]
                       /\ rows[i].response = call

C27_Witness ==
  /\ Open
  /\ Len(rows) = 6
  /\ rowGuard(formState, formErrors, "fixed_percent") = ""
  /\ "error" \in DOMAIN rows[1]
  /\ rows[1].error = MsgUnitCost
  /\ "response" \in DOMAIN rows[3]
  /\ "error" \in DOMAIN rows[4]
  /\ "response" \in DOMAIN rows[6]

\* the parameter of the stop type of a TradeInput
StopParameter(inp) ==
  CASE inp.stop.type = "fixed_percent" -> inp.stop.percent
    [] inp.stop.type = "atr_multiple" -> inp.stop.atrMultiple
    [] inp.stop.type = "fixed_points" -> inp.stop.points

\* the risk fields of the active mode are positive
RiskFieldsPositive(rp) ==
  CASE rp.mode = "risk_cash" -> isPositive(rp.riskCash)
    [] rp.mode = "risk_percent" ->
         isPositive(rp.riskPercent) /\ isPositive(rp.accountSize)
    [] rp.mode = "notional" -> isPositive(rp.notional)

\* C28: formErrors is validateState(formState) whenever rows are built, and
\* calculateTrade is invoked only with valid base fields, a positive lot
\* step, a positive stop parameter and positive risk fields; the base-input
\* errors and the computed-stop error of the core are unreachable, and the
\* only error of the core a row can show is the unit-cost error, which takes
\* a negative fee.
C28_UiValidation ==
  Open =>
    /\ formErrors = validateState(formState)
    /\ \A i \in 1..Len(calls) :
         /\ isPositive(calls[i].level)
         /\ isPositive(calls[i].atr)
         /\ isPositive(calls[i].rrMultiple)
         /\ isNonNegative(calls[i].bufferRatio)
         /\ isPositive(calls[i].instrument.contractMultiplier)
         /\ isPositive(calls[i].instrument.lotStep)
         /\ isPositive(StopParameter(calls[i]))
         /\ RiskFieldsPositive(calls[i].riskProfile)
         /\ baseInputError(calls[i]) = NoError
         /\ calculateTrade(calls[i]).status = "error" =>
              /\ calculateTrade(calls[i]).message = MsgUnitCost
              /\ RLt(calls[i].instrument.feePerUnit, Num(0))
    /\ \A i \in 1..Len(rows) :
         "error" \in DOMAIN rows[i] =>
           rows[i].error \notin {MsgRr, MsgBuffer, MsgMultiplier, MsgStop}

\* a negative fee is in formErrors and still reaches the core
C28_Witness ==
  /\ Open
  /\ requests > 0
  /\ "feePerUnit" \in DOMAIN formErrors
  /\ Len(calls) = 6
  /\ RLt(calls[2].instrument.feePerUnit, Num(0))
  /\ calculateTrade(calls[2]).status = "error"
  /\ "error" \in DOMAIN rows[2]
  /\ rows[2].error = MsgUnitCost

\* the storage area holds the form state and the presets as they are
Saved == storage.available => storage.items = itemsOf(formState, presets)

\* C29: every save request cancels the pending timer and starts one of
\* DELAY ms without writing; the storage is written only when a timer
\* expires, once per burst, with the form state and the presets of that
\* moment; every change of them requests a save; and unless a further
\* request arrives, the latest state is eventually written.
C29_DebouncedSave ==
  /\ [][/\ requests' # requests =>
             (timer' = DELAY /\ storage' = storage /\ writes' = 0)
        /\ (storage' # storage \/ writes' # writes) =>
             \/ requests' # requests
             \/ /\ timer > 0
                /\ timer <= Quantum
                /\ timer' = 0
                /\ writes' = 1
                /\ storage' = storageSet(storage, itemsOf(formState, presets))
                /\ formState' = formState
                /\ presets' = presets
        /\ (formState' # formState \/ presets' # presets) =>
             requests' # requests]_vars
  /\ \A k \in 0..MaxRequests :
       (timer > 0 /\ requests = k)
         ~> ((timer = 0 /\ writes = 1 /\ Saved) \/ requests > k)

C29_Witness ==
  /\ Open
  /\ requests = 2
  /\ timer = 0
  /\ writes = 1
  /\ storage.available
  /\ storage.items = itemsOf(formState, presets)
  /\ formState # loadedForm([available |-> TRUE, items |-> <<>>])
  /\ Len(presets) = 1

NamesDistinct(list) ==
  \A i, j \in 1..Len(list) : i # j => list[i].name # list[j].name

\* the presets whose name is not n, in their order
Others(list, n) == SelectSeq(list, LAMBDA item : item.name # n)

\* C30: the names of the presets stay pairwise distinct.  A step that
\* changes the presets drops the presets of the trimmed name, appends one
\* preset holding the current risk and instrument state and selects it,
\* leaving the form alone; a cancelled, empty or blank name is not a name;
\* a step that changes the form without a form event replaces only risk
\* and instrument, by those of a preset, and leaves the presets alone.
C30_PresetNames ==
  /\ [](Open =>
          /\ NamesDistinct(presets)
          /\ \A answer \in PromptAnswers :
               nameGiven(answer) <=>
                 ~(answer.cancelled \/ answer.text \in {"", " "}))
  /\ [][/\ presets' # presets =>
             LET saved == presets'[Len(presets')]
             IN  /\ presets' = Append(Others(presets, saved.name), saved)
                 /\ saved.name \in {Trim(a.text) : a \in PromptAnswers} \ {""}
                 /\ saved.risk = formState.risk
                 /\ saved.instrument = formState.instrument
                 /\ selectedPresetId' = saved.id
                 /\ formState' = formState
        /\ (formState' # formState /\ selectedPresetId' # NoSelection
              /\ \A ev \in FormEvents :
                   formState' # formAfterInput(formState, ev.name, ev.value,
                                               ev.checked)) =>
             /\ presets' = presets
             /\ \E i \in 1..Len(presets) :
                  /\ formState'.risk = presets[i].risk
                  /\ formState'.instrument = presets[i].instrument
             /\ [formState' EXCEPT !.risk = formState.risk,
                                   !.instrument = formState.instrument]
                  = formState]_vars

C30_Witness ==
  /\ Open
  /\ requests = 2
  /\ Len(presets) = 2
  /\ presets[1].name = "b"
  /\ presets[2].name = "a"
  /\ presets[2].risk = formState.risk
  /\ presets[2].risk # StoredPresets[1].risk
  /\ selectedPresetId = presets[2].id

====
